---- MODULE Spec2Model ----
(***************************************************************************)
(* Model of qbtill.py: conversion of an Mpesa till statement into a        *)
(* QuickBooks IIF buffer.                                                  *)
(*                                                                         *)
(* Representation.  Text cells of the Details column are sequences of      *)
(* one-character strings, so that lower-casing, stripping and substring    *)
(* search are computed.  Amounts are integers in units of 1/8 shilling     *)
(* (binary fractions, exact as floats); an amount written with the format  *)
(* {:.2f} becomes an integer number of cents.  Rendered dates are strings. *)
(* The MEMO column of a line and the Other Party Info column are left out: *)
(* no property below reads them.                                           *)
(***************************************************************************)
EXTENDS Integers, Sequences, FiniteSets, TLC

VARIABLES df, pc, it, ln, payments_df, transfers_df, charges_df,
          charges_summary, other_withdrawals, output, origin, totals

vars == <<df, pc, it, ln, payments_df, transfers_df, charges_df,
          charges_summary, other_withdrawals, output, origin, totals>>

\* Largest number of data rows of an uploaded statement.
MaxRows == 2

(* ------------------------------ text ---------------------------------- *)

Upper == <<"A","B","C","D","E","F","G","H","I","J","K","L","M","N","O","P","Q","R","S","T","U","V","W","X","Y","Z">>
Lower == <<"a","b","c","d","e","f","g","h","i","j","k","l","m","n","o","p","q","r","s","t","u","v","w","x","y","z">>

Whitespace == {" ", "\t", "\n"}

\* str.lower() on one character
LowerChar(c) ==
    IF \E i \in 1..Len(Upper) : Upper[i] = c
    THEN Lower[CHOOSE i \in 1..Len(Upper) : Upper[i] = c]
    ELSE c

\* Series.str.lower()
StrLower(s) == [i \in 1..Len(s) |-> LowerChar(s[i])]

\* Series.str.strip(): leading and trailing whitespace removed
StrStrip(s) ==
    LET keep == {i \in 1..Len(s) : s[i] \notin Whitespace}
    IN  IF keep = {} THEN <<>>
        ELSE LET lo == CHOOSE i \in keep : \A j \in keep : i <= j
                 hi == CHOOSE i \in keep : \A j \in keep : i >= j
             IN  SubSeq(s, lo, hi)

\* Series.str.contains(pat) for a pattern without regex metacharacters
StrContains(s, pat) ==
    \E i \in 1..(Len(s) - Len(pat) + 1) : SubSeq(s, i, i + Len(pat) - 1) = pat

SettlementPhrase == <<"m","e","r","c","h","a","n","t"," ","a","c","c","o","u","n","t"," ","t","o"," ","o","r","g","a","n","i","z","a","t","i","o","n"," ","s","e","t","t","l","e","m","e","n","t"," ","a","c","c","o","u","n","t">>

ChargePhrase == <<"p","a","y"," ","m","e","r","c","h","a","n","t"," ","c","h","a","r","g","e">>

(* ------------------------------ cells --------------------------------- *)

\* Details cells of the uploaded table
DetailsCells ==
    { "B2B Merchant Account to Organization Settlement Account",
      " Pay Merchant Charge ",
      "Pay merchant Charge Reversal" }

\* the characters of a Details cell
Chars(cell) ==
    CASE cell = "B2B Merchant Account to Organization Settlement Account" ->
            <<"B","2","B"," ","M","e","r","c","h","a","n","t"," ","A","c","c","o","u","n","t"," ","t","o"," ","O","r","g","a","n","i","z","a","t","i","o","n"," ","S","e","t","t","l","e","m","e","n","t"," ","A","c","c","o","u","n","t">>
      [] cell = " Pay Merchant Charge " ->
            <<" ","P","a","y"," ","M","e","r","c","h","a","n","t"," ","C","h","a","r","g","e"," ">>
      [] cell = "Pay merchant Charge Reversal" ->
            <<"P","a","y"," ","m","e","r","c","h","a","n","t"," ","C","h","a","r","g","e"," ","R","e","v","e","r","s","a","l">>

\* df['Details'].str.lower().str.contains("merchant account to ...")
IsSettlement(details) == StrContains(StrLower(Chars(details)), SettlementPhrase)

\* df['Details'].str.strip().str.lower() == "pay merchant charge"
IsCharge(details) == StrLower(StrStrip(Chars(details))) = ChargePhrase

\* Completion Time cells: year, month, day, hour as read from the file.
\* The last one names no calendar day.
TimeCells ==
    { [y |-> 2024, m |-> 2, d |-> 1,  h |-> 8],
      [y |-> 2024, m |-> 1, d |-> 3,  h |-> 9],
      [y |-> 2024, m |-> 1, d |-> 3,  h |-> 17],
      [y |-> 2024, m |-> 2, d |-> 30, h |-> 12] }

\* Amount cells: a number in eighths of a shilling, or a blank / non-numeric cell
Blank == [num |-> FALSE, val |-> 0]
Num(v) == [num |-> TRUE, val |-> v]

\* Paid In / Withdrawn cells of one row: money in, money out written as a
\* positive number, money out written as a negative number
AmountCells ==
    { [paid |-> Num(3), wd |-> Blank],
      [paid |-> Blank,  wd |-> Num(2)],
      [paid |-> Blank,  wd |-> Num(-2)] }

RawRows ==
    { [ct |-> t, paid |-> a.paid, wd |-> a.wd, details |-> x] :
        t \in TimeCells, a \in AmountCells, x \in DetailsCells }

(* --------------------------- type conversions -------------------------- *)

NaT == [kind |-> "NaT", y |-> 0, m |-> 0, d |-> 0, h |-> 0]

DaysIn(y, m) ==
    IF m \in {4, 6, 9, 11} THEN 30
    ELSE IF m = 2 THEN (IF y % 4 = 0 /\ (y % 100 # 0 \/ y % 400 = 0) THEN 29 ELSE 28)
    ELSE 31

\* pd.to_datetime(cell, errors='coerce')
ToDatetime(c) ==
    IF c.kind = "NaT" THEN NaT
    ELSE IF c.m \in 1..12 /\ c.d \in 1..DaysIn(c.y, c.m) /\ c.h \in 0..23
         THEN [kind |-> "Timestamp", y |-> c.y, m |-> c.m, d |-> c.d, h |-> c.h]
         ELSE NaT

\* pd.to_numeric(cell, errors='coerce') followed by fillna(0)
ToNumericFillna(c) == IF c.num THEN c.val ELSE 0

\* lines 51-54 applied to one row
ConvertRow(r) ==
    [ct      |-> ToDatetime([kind |-> "cell", y |-> r.ct.y, m |-> r.ct.m, d |-> r.ct.d, h |-> r.ct.h]),
     paid    |-> ToNumericFillna(r.paid),
     wd      |-> ToNumericFillna(r.wd),
     details |-> r.details]

(* ---------------------------- fmt_date -------------------------------- *)

Pad2(n) == IF n < 10 THEN "0" \o ToString(n) ELSE ToString(n)

\* str(dt)
StrOf(dt) ==
    IF dt.kind = "NaT" THEN "NaT"
    ELSE IF dt.kind = "date" THEN ToString(dt.y) \o "-" \o Pad2(dt.m) \o "-" \o Pad2(dt.d)
    ELSE ToString(dt.y) \o "-" \o Pad2(dt.m) \o "-" \o Pad2(dt.d) \o " " \o Pad2(dt.h) \o ":00:00"

\* datetime.strptime(s.split()[0], "%Y-%m-%d") succeeds, for s = str(dt)
StrptimeOk(dt) ==
    dt.kind # "NaT" /\ dt.m \in 1..12 /\ dt.d \in 1..DaysIn(dt.y, dt.m)

\* which return statement of fmt_date is taken: 22 (day/month/year),
\* 19 (month/day/year) or 21 (raw string)
FmtDateBranch(dt) ==
    IF ToDatetime(dt).kind = "NaT"
    THEN IF StrptimeOk(dt) THEN "mdy" ELSE "raw"
    ELSE "dmy"

FmtDate(dt) ==
    LET ts == ToDatetime(dt)
    IN  IF ts.kind = "NaT"
        THEN IF StrptimeOk(dt)
             THEN Pad2(dt.m) \o "/" \o Pad2(dt.d) \o "/" \o ToString(dt.y)
             ELSE StrOf(dt)
        ELSE Pad2(ts.d) \o "/" \o Pad2(ts.m) \o "/" \o ToString(ts.y)

(* ------------------------------ amounts -------------------------------- *)

Fmt2Mutant(v) == (v * 25) \div 2
\* f"{x:.2f}" of x = v/8: the nearest number of cents, ties to even
Fmt2(v) ==
    LET n == IF v < 0 THEN -(v * 25) ELSE v * 25
        q == n \div 2
        c == IF n % 2 = 0 THEN q ELSE IF q % 2 = 0 THEN q ELSE q + 1
    IN  IF v < 0 THEN -c ELSE c

Abs(x) == IF x < 0 THEN -x ELSE x

RECURSIVE SumOver(_, _, _)
\* Series.sum() of column col ("paid" or "wd") over the rows of frame
SumOver(rows, frame, col) ==
    IF frame = <<>> THEN 0
    ELSE (IF col = "paid" THEN rows[Head(frame)].paid ELSE rows[Head(frame)].wd)
         + SumOver(rows, Tail(frame), col)

(* ------------------------------ frames --------------------------------- *)

RECURSIVE Filter(_, _, _)
\* df[mask]: the indices i of rows, in order, at which mask[i] holds
Filter(rows, mask, i) ==
    IF i > Len(rows) THEN <<>>
    ELSE IF mask[i] THEN <<i>> \o Filter(rows, mask, i + 1)
    ELSE Filter(rows, mask, i + 1)

AllRows(rows) == [i \in 1..Len(rows) |-> i]

\* Series.dt.date
DtDate(ts) ==
    IF ts.kind = "NaT" THEN NaT
    ELSE [kind |-> "date", y |-> ts.y, m |-> ts.m, d |-> ts.d, h |-> 0]

DateLess(a, b) ==
    \/ a.y < b.y
    \/ a.y = b.y /\ a.m < b.m
    \/ a.y = b.y /\ a.m = b.m /\ a.d < b.d

\* group keys of groupby: NaT keys are dropped (dropna=True)
GroupKeys(rows, frame) ==
    {DtDate(rows[frame[j]].ct) : j \in 1..Len(frame)} \ {NaT}

\* the rows of frame that fall in the group of key, in frame order
GroupRows(rows, frame, key) ==
    LET at == Filter(frame, [j \in 1..Len(frame) |-> DtDate(rows[frame[j]].ct) = key], 1)
    IN  [j \in 1..Len(at) |-> frame[at[j]]]

RECURSIVE SortedKeys(_)
SortedKeysMutant(S) ==
    IF S = {} THEN <<>>
    ELSE LET k == CHOOSE k \in S : \A o \in S \ {k} : DateLess(o, k)
         IN  <<k>> \o SortedKeys(S \ {k})
\* groupby(sort=True): keys ascending
SortedKeys(S) ==
    IF S = {} THEN <<>>
    ELSE LET k == CHOOSE k \in S : \A o \in S \ {k} : DateLess(k, o)
         IN  <<k>> \o SortedKeys(S \ {k})

\* charges_df.groupby(charges_df['Completion Time'].dt.date)['Withdrawn'].sum().reset_index()
GroupbySum(rows, frame) ==
    LET keys == SortedKeys(GroupKeys(rows, frame))
    IN  [g \in 1..Len(keys) |->
            [ct |-> keys[g], wd |-> SumOver(rows, GroupRows(rows, frame, keys[g]), "wd")]]

(* ------------------------------- lines --------------------------------- *)

HeaderTRNS == [tag |-> "!TRNS", cols |-> <<"TRNSTYPE", "DATE", "ACCNT", "NAME", "AMOUNT", "MEMO">>]
HeaderSPL == [tag |-> "!SPL", cols |-> <<"TRNSTYPE", "DATE", "ACCNT", "NAME", "AMOUNT", "MEMO">>]
HeaderENDTRNS == [tag |-> "!ENDTRNS"]

TrnsLine(type, date, accnt, name, amount) ==
    [tag |-> "TRNS", type |-> type, date |-> date, accnt |-> accnt, name |-> name, amount |-> Fmt2(amount)]

SplLine(type, date, accnt, name, amount) ==
    [tag |-> "SPL", type |-> type, date |-> date, accnt |-> accnt, name |-> name, amount |-> Fmt2(amount)]

EndLine == [tag |-> "ENDTRNS"]

(* --------------------------- the conversion ---------------------------- *)

Tables == UNION {[1..n -> RawRows] : n \in 0..MaxRows}

NoTotals == [paid_in |-> 0, withdrawn |-> 0, charge |-> 0]

\* an uploaded table with the required columns, before the type conversions
Init ==
    /\ df \in Tables
    /\ pc = "convert"
    /\ it = 1
    /\ ln = "TRNS"
    /\ payments_df = <<>>
    /\ transfers_df = <<>>
    /\ charges_df = <<>>
    /\ charges_summary = <<>>
    /\ other_withdrawals = <<>>
    /\ output = <<>>
    /\ origin = <<>>
    /\ totals = NoTotals

\* lines 51-58
Convert ==
    /\ pc = "convert"
    /\ df' = [i \in 1..Len(df) |-> ConvertRow(df[i])]
    /\ pc' = "header"
    /\ UNCHANGED <<it, ln, payments_df, transfers_df, charges_df, charges_summary,
                   other_withdrawals, output, origin, totals>>

\* lines 59-61, one write at a time
WriteHeader ==
    /\ pc = "header"
    /\ Len(output) < 3
    /\ output' = Append(output, <<HeaderTRNS, HeaderSPL, HeaderENDTRNS>>[Len(output) + 1])
    /\ UNCHANGED <<df, pc, it, ln, payments_df, transfers_df, charges_df, charges_summary,
                   other_withdrawals, origin, totals>>

\* line 64
SelectPayments ==
    /\ pc = "header"
    /\ Len(output) = 3
    /\ payments_df' = Filter(df, [i \in 1..Len(df) |-> df[i].paid > 0], 1)
    /\ pc' = "payments"
    /\ it' = 1
    /\ ln' = "TRNS"
    /\ UNCHANGED <<df, transfers_df, charges_df, charges_summary, other_withdrawals,
                   output, origin, totals>>

\* one write of the loop body running at pc = at over frame: line is the line written,
\* src the record of where a new entry comes from
WriteLine(at, frame, line, src) ==
    /\ pc = at
    /\ it <= Len(frame)
    /\ output' = Append(output, line)
    /\ origin' = IF ln = "TRNS" THEN Append(origin, src) ELSE origin
    /\ ln' = IF ln = "TRNS" THEN "SPL" ELSE IF ln = "SPL" THEN "ENDTRNS" ELSE "TRNS"
    /\ it' = IF ln = "ENDTRNS" THEN it + 1 ELSE it
    /\ UNCHANGED <<df, pc, payments_df, transfers_df, charges_df, charges_summary,
                   other_withdrawals, totals>>

\* lines 65-72
PaymentLines(row) ==
    LET date_str == FmtDate(row.ct)
        amount == row.paid
    IN  <<TrnsLine("PAYMENT", date_str, "Mpesa Till", "Walk In", amount),
          SplLine("PAYMENT", date_str, "Accounts Receivable", "Walk In", -amount),
          EndLine>>

TransferLinesMutant(row) ==
    LET date_str == FmtDate(row.ct)
        amount == Abs(row.wd)
    IN  <<SplLine("TRANSFER", date_str, "Diamond Trust Bank", "Mpesa Till", amount),
          TrnsLine("TRANSFER", date_str, "Mpesa Till", "Diamond Trust Bank", -amount),
          EndLine>>
\* lines 76-83
TransferLines(row) ==
    LET date_str == FmtDate(row.ct)
        amount == Abs(row.wd)
    IN  <<TrnsLine("TRANSFER", date_str, "Mpesa Till", "Diamond Trust Bank", -amount),
          SplLine("TRANSFER", date_str, "Diamond Trust Bank", "Mpesa Till", amount),
          EndLine>>

\* lines 89-98
ChargeLines(row) ==
    LET date_str == FmtDate(row.ct)
        amount == row.wd
    IN  <<TrnsLine("CHECK", date_str, "Mpesa Till", "Safaricom", -amount),
          SplLine("CHECK", date_str, "Bank Service Charges:Bank Charges - Mpesa", "Safaricom", amount),
          EndLine>>

\* lines 106-114
OtherLines(row) ==
    LET date_str == FmtDate(row.ct)
        amount == row.wd
    IN  <<TrnsLine("CHECK", date_str, "Mpesa Till", "Mpesa", amount),
          SplLine("CHECK", date_str, "Bank Service Charges", "Mpesa", -amount),
          EndLine>>

LineNo == IF ln = "TRNS" THEN 1 ELSE IF ln = "SPL" THEN 2 ELSE 3

WritePayment ==
    /\ pc = "payments" /\ it <= Len(payments_df)
    /\ LET i == payments_df[it]
       IN  WriteLine("payments", payments_df, PaymentLines(df[i])[LineNo],
                     [kind |-> "PAYMENT", rows |-> {i}, dt |-> df[i].ct])

\* line 75
SelectTransfers ==
    /\ pc = "payments"
    /\ it > Len(payments_df)
    /\ transfers_df' = Filter(df, [i \in 1..Len(df) |-> IsSettlement(df[i].details)], 1)
    /\ pc' = "transfers"
    /\ it' = 1
    /\ UNCHANGED <<df, ln, payments_df, charges_df, charges_summary, other_withdrawals,
                   output, origin, totals>>

WriteTransfer ==
    /\ pc = "transfers" /\ it <= Len(transfers_df)
    /\ LET i == transfers_df[it]
       IN  WriteLine("transfers", transfers_df, TransferLines(df[i])[LineNo],
                     [kind |-> "TRANSFER", rows |-> {i}, dt |-> df[i].ct])

\* lines 86-88
SelectCharges ==
    /\ pc = "transfers"
    /\ it > Len(transfers_df)
    /\ LET frame == Filter(df, [i \in 1..Len(df) |-> IsCharge(df[i].details)], 1)
       IN  /\ charges_df' = frame
           /\ charges_summary' = IF frame = <<>> THEN <<>> ELSE GroupbySum(df, frame)
    /\ pc' = "charges"
    /\ it' = 1
    /\ UNCHANGED <<df, ln, payments_df, transfers_df, other_withdrawals,
                   output, origin, totals>>

WriteCharge ==
    /\ pc = "charges" /\ it <= Len(charges_summary)
    /\ LET row == charges_summary[it]
           members == GroupRows(df, charges_df, row.ct)
       IN  WriteLine("charges", charges_summary, ChargeLines(row)[LineNo],
                     [kind |-> "CHARGE", rows |-> {members[j] : j \in 1..Len(members)},
                      dt |-> row.ct])

\* lines 101-105
SelectOthers ==
    /\ pc = "charges"
    /\ it > Len(charges_summary)
    /\ other_withdrawals' =
           Filter(df, [i \in 1..Len(df) |-> /\ df[i].wd > 0
                                            /\ ~IsSettlement(df[i].details)
                                            /\ ~IsCharge(df[i].details)], 1)
    /\ pc' = "others"
    /\ it' = 1
    /\ UNCHANGED <<df, ln, payments_df, transfers_df, charges_df, charges_summary,
                   output, origin, totals>>

WriteOther ==
    /\ pc = "others" /\ it <= Len(other_withdrawals)
    /\ LET i == other_withdrawals[it]
       IN  WriteLine("others", other_withdrawals, OtherLines(df[i])[LineNo],
                     [kind |-> "OTHER", rows |-> {i}, dt |-> df[i].ct])

\* lines 117-119: the three reported totals, as displayed with two decimals
Totals ==
    /\ pc = "others"
    /\ it > Len(other_withdrawals)
    /\ totals' = [paid_in   |-> Fmt2(SumOver(df, payments_df, "paid")),
                  withdrawn |-> Fmt2(SumOver(df, AllRows(df), "wd")),
                  charge    |-> Fmt2(SumOver(df, charges_df, "wd"))]
    /\ pc' = "done"
    /\ UNCHANGED <<df, it, ln, payments_df, transfers_df, charges_df, charges_summary,
                   other_withdrawals, output, origin>>

Next ==
    \/ Convert
    \/ WriteHeader
    \/ SelectPayments
    \/ WritePayment
    \/ SelectTransfers
    \/ WriteTransfer
    \/ SelectCharges
    \/ WriteCharge
    \/ SelectOthers
    \/ WriteOther
    \/ Totals

Spec == Init /\ [][Next]_vars

(* ------------------------- reading the buffer -------------------------- *)

Header == <<HeaderTRNS, HeaderSPL, HeaderENDTRNS>>

\* the number of entries begun, and the lines of entry j
Entries == 1..Len(origin)
TrnsOf(j) == output[3 * j + 1]
SplOf(j) == output[3 * j + 2]
HasSpl(j) == Len(output) >= 3 * j + 2
Complete(j) == Len(output) >= 3 * j + 3

EntriesOf(kind) == {j \in Entries : origin[j].kind = kind}
EntriesFrom(i) == {j \in Entries : i \in origin[j].rows}

Rows == 1..Len(df)
ValidTime(i) == df[i].ct.kind = "Timestamp"
SameDay(a, b) == a.y = b.y /\ a.m = b.m /\ a.d = b.d

RECURSIVE SetSum(_, _)
\* the sum of f[x] over the finite set S
SetSum(f, S) ==
    IF S = {} THEN 0
    ELSE LET x == CHOOSE x \in S : TRUE IN f[x] + SetSum(f, S \ {x})

PaidOf == [i \in Rows |-> df[i].paid]
WithdrawnOf == [i \in Rows |-> df[i].wd]

(* ------------------------------- claims -------------------------------- *)

\* C1: every row contributes to at most one ledger entry of the finished
\* export, and a row with paid_in > 0 contributes to exactly one entry, a
\* PAYMENT, and to no other.
C1_OneCategoryPerRow ==
    pc = "done" =>
        \A i \in Rows :
            /\ Cardinality(EntriesFrom(i)) <= 1
            /\ df[i].paid > 0 =>
                  /\ Cardinality(EntriesFrom(i)) = 1
                  /\ \A j \in EntriesFrom(i) : origin[j].kind = "PAYMENT"

\* C2: a row whose details contains the settlement phrase yields one TRANSFER
\* entry when paid_in is not > 0, whatever withdrawn is, and no TRANSFER entry
\* when paid_in > 0.
C2_SettlementPrecedence ==
    pc = "done" =>
        \A i \in Rows :
            IsSettlement(df[i].details) =>
                Cardinality(EntriesFrom(i) \cap EntriesOf("TRANSFER"))
                    = (IF df[i].paid > 0 THEN 0 ELSE 1)

\* C3: a row whose completion time is null after coercion is the source of no
\* ledger entry, and the reported totals are the sums over the rows with a
\* valid completion time only.
C3_NullTimeExcluded ==
    pc = "done" =>
        LET valid == {i \in Rows : ValidTime(i)}
        IN  /\ \A i \in Rows \ valid : EntriesFrom(i) = {}
            /\ totals.paid_in = Fmt2(SetSum(PaidOf, {i \in valid : df[i].paid > 0}))
            /\ totals.withdrawn = Fmt2(SetSum(WithdrawnOf, valid))
            /\ totals.charge = Fmt2(SetSum(WithdrawnOf, {i \in valid : IsCharge(df[i].details)}))

\* C4: in the finished export the charge summary entries are, one for one, the
\* calendar dates of the rows whose trimmed, lower-cased details equals
\* 'pay merchant charge'; the entry of a date carries the sum of withdrawn over
\* exactly the charge rows of that date (negated on the TRNS line), and the
\* entries appear in ascending date order.
C4_ChargeAggregation ==
    pc = "done" =>
        LET charges == {i \in Rows : ValidTime(i) /\ IsCharge(df[i].details)}
            onDay(d) == {i \in charges : SameDay(df[i].ct, d)}
            ch == EntriesOf("CHARGE")
        IN  /\ \A i \in charges :
                   Cardinality({j \in ch : SameDay(origin[j].dt, df[i].ct)}) = 1
            /\ \A j \in ch :
                   /\ onDay(origin[j].dt) # {}
                   /\ origin[j].rows = onDay(origin[j].dt)
                   /\ SplOf(j).amount = Fmt2(SetSum(WithdrawnOf, onDay(origin[j].dt)))
                   /\ TrnsOf(j).amount = Fmt2(-SetSum(WithdrawnOf, onDay(origin[j].dt)))
                   /\ TrnsOf(j).type = "CHECK" /\ TrnsOf(j).name = "Safaricom"
            /\ \A j, k \in ch : j < k => DateLess(origin[j].dt, origin[k].dt)

\* two charge rows of one day, at different hours, summed into one entry
C4_Witness ==
    /\ pc = "done"
    /\ \E j \in EntriesOf("CHARGE") :
          /\ Cardinality(origin[j].rows) = 2
          /\ \E a, b \in origin[j].rows : df[a].ct.h # df[b].ct.h
          /\ SplOf(j).amount = 50

\* C5: in every entry of the buffer the amount of the TRNS line plus the
\* amount of the SPL line is 0.
C5_Balanced ==
    \A j \in Entries : HasSpl(j) => TrnsOf(j).amount + SplOf(j).amount = 0

\* a finished export holding a payment whose amount rounds at a tie (0.375)
\* and a withdrawal entry of a negative withdrawn value
C5_Witness ==
    /\ pc = "done"
    /\ \E j \in EntriesOf("PAYMENT") : TrnsOf(j).amount = 38 /\ SplOf(j).amount = -38
    /\ \E j \in Entries : origin[j].kind # "PAYMENT" /\ TrnsOf(j).amount # 0
                          /\ \E i \in origin[j].rows : df[i].wd < 0

\* C6: the reported Total Paid In is the sum of paid_in, and the reported
\* Total Withdrawn the sum of withdrawn, over all rows with a valid completion
\* time.
C6_ReportedTotals ==
    pc = "done" =>
        LET valid == {i \in Rows : ValidTime(i)}
        IN  /\ totals.paid_in = Fmt2(SetSum(PaidOf, valid))
            /\ totals.withdrawn = Fmt2(SetSum(WithdrawnOf, valid))

\* C7: once the header is written the buffer is the three header lines followed
\* by lines that repeat TRNS, SPL, ENDTRNS in this order, the SPL line of an
\* entry having the type and date of its TRNS line; before that the buffer is a
\* prefix of the header; the finished buffer ends with a complete entry.
C7_BufferStructure ==
    /\ Len(output) <= 3 => output = SubSeq(Header, 1, Len(output))
    /\ pc \notin {"convert", "header"} => Len(output) >= 3
    /\ Len(output) >= 3 =>
          /\ SubSeq(output, 1, 3) = Header
          /\ \A p \in 4..Len(output) :
                output[p].tag = <<"TRNS", "SPL", "ENDTRNS">>[((p - 4) % 3) + 1]
          /\ \A p \in 4..Len(output) :
                output[p].tag = "SPL" =>
                    /\ output[p].type = output[p - 1].type
                    /\ output[p].date = output[p - 1].date
    /\ pc = "done" => (Len(output) - 3) % 3 = 0

\* a finished buffer with entries of two transaction types
C7_Witness ==
    /\ pc = "done"
    /\ Len(output) >= 9
    /\ \E p, q \in 4..Len(output) :
          /\ output[p].tag = "TRNS" /\ output[q].tag = "TRNS"
          /\ output[p].type = "PAYMENT" /\ output[q].type = "TRANSFER"

\* C8: the TRNS amount of every TRANSFER entry and of every charge summary
\* entry is <= 0 and the SPL amount is >= 0.
C8_WithdrawalSigns ==
    \A j \in EntriesOf("TRANSFER") \cup EntriesOf("CHARGE") :
        /\ TrnsOf(j).amount <= 0
        /\ HasSpl(j) => SplOf(j).amount >= 0

\* C9: all entries of one run have their date rendered by the same branch of
\* fmt_date.
C9_UniformDates ==
    \A j, k \in Entries : FmtDateBranch(origin[j].dt) = FmtDateBranch(origin[k].dt)

\* C10: the reported total of 'Pay merchant Charge' is the sum of the amounts
\* of the charge summary entries of the finished export.
C10_ChargeTotal ==
    pc = "done" =>
        totals.charge = SetSum([j \in Entries |-> SplOf(j).amount], EntriesOf("CHARGE"))

====
